---------------------------- MODULE Spec2Model ----------------------------
(***************************************************************************)
(* Model of osm-num-active-contributors (src/src/main.rs).                 *)
(*                                                                         *)
(* main() reads every object of an OSM history file, folds the objects in  *)
(* parallel (rayon par_bridge / fold / reduce_with) into three indexes     *)
(*     user_edit_days : uid  -> set of days                                *)
(*     day_edit_users : day  -> set of uids                                *)
(*     last_username  : uid  -> (timestamp, username)                      *)
(* and then writes two CSV reports from them: one row per calendar day,    *)
(* and one row per (day, uid) for a span of days chosen by the arguments.  *)
(*                                                                         *)
(* A NaiveDate is modelled as its number of days since 1970-01-01; a       *)
(* timestamp is a number of seconds since 1970-01-01T00:00:00Z.            *)
(***************************************************************************)
EXTENDS Integers, Sequences, FiniteSets, TLC

VARIABLES
    args,                \* the parsed command line (struct Args)
    input,               \* the objects of the history file, as a sequence
    pending,             \* indexes of input not yet pulled by a worker
    partials,            \* live fold accumulator -> its partial triple
    phase,               \* the position of main()
    user_edit_days,      \* global index, after reduce_with
    day_edit_users,      \* global index, after reduce_with
    last_username,       \* global index, after reduce_with
    input_day_range,     \* <<first day, last day>> of day_edit_users
    files_created,       \* both output files have been created
    output_per_day,      \* rows written to user_totals_per_day.csv
    output_date_per_uid, \* rows written to users_per_day.csv
    day,                 \* loop variable of the per-day loop
    uids_last_year,      \* the window computed by the last per-day iteration
    start_date,          \* resolved start of the per-user span
    end_date,            \* resolved end of the per-user span
    specific_date,       \* loop variable of the per-user loop
    users_days           \* the window computed by the last per-user iteration

vars == <<args, input, pending, partials, phase, user_edit_days, day_edit_users,
          last_username, input_day_range, files_created, output_per_day,
          output_date_per_uid, day, uids_last_year, start_date, end_date,
          specific_date, users_days>>

-----------------------------------------------------------------------------
(* Bounds of the model.                                                    *)

MaxEvents == 3

NumWorkers == 2

-----------------------------------------------------------------------------
(* Values.                                                                 *)

\* Option<T>: None is the empty sequence, Some(v) the one-element sequence.
None == <<>>

Some(v) == <<v>>

Unwrap(opt) == opt[1]

EmptyMap == <<>>

SecondsPerDay == 86400

\* 2019-01-01 as days since 1970-01-01 (49 years, 12 of them leap years).
BaseDay == 49 * 365 + 12

Workers == 1..NumWorkers

EmptyTriple ==
    [user_edit_days |-> EmptyMap, day_edit_users |-> EmptyMap, last_username |-> EmptyMap]

\* An object of the file: what o.uid(), o.timestamp() and o.user() return.
Event(uid, timestamp, user) == [uid |-> uid, timestamp |-> timestamp, user |-> user]

Obj(uid, timestamp, user) == Event(Some(uid), Some(timestamp), Some(user))

T0 == BaseDay * SecondsPerDay

\* The objects a history file of the model may hold: editor 1 at three
\* timestamps (two of them on the same day) under two names, editor 2 on two
\* days, and objects without a uid, a timestamp or a user name.
EventUniverse ==
    << Obj(1, T0, "Alice"), Obj(1, T0, "Bob"),
       Obj(1, T0 + 1, "Alice"), Obj(1, T0 + 1, "Bob"),
       Obj(1, T0 + SecondsPerDay, "Alice"), Obj(1, T0 + SecondsPerDay, "Bob"),
       Obj(2, T0, "Carol"), Obj(2, T0 + SecondsPerDay, "Carol"),
       Event(None, Some(T0), Some("Alice")), Event(Some(1), None, Some("Alice")),
       Event(Some(2), Some(T0 + 1), None) >>

\* A file is a bag of objects; it is written down once, in ascending index
\* order, because the order in which workers pull objects is left open.
Inputs ==
    { [i \in 1..Len(s) |-> EventUniverse[s[i]]] :
        s \in { t \in UNION { [1..n -> 1..Len(EventUniverse)] : n \in 0..MaxEvents } :
                  \A i \in 1..Len(t) : \A j \in 1..Len(t) : i < j => t[i] <= t[j] } }

-----------------------------------------------------------------------------
(* The fold closure (main.rs 65-90).                                       *)

\* main.rs 71-78: the calendar day of a timestamp (the date part of its ISO
\* string, parsed back into a NaiveDate).
DayOf(timestamp) == timestamp \div SecondsPerDay

\* main.rs 71-84: the unwraps of the fold closure.  The user name is read
\* only where the closure gets to evaluate o.user(): when the uid has no
\* entry yet, or when the stored timestamp is <= the object's.
FoldPanics(acc, o) ==
    IF o.timestamp = None \/ o.uid = None THEN TRUE
    ELSE IF o.user # None THEN FALSE
    ELSE IF Unwrap(o.uid) \notin DOMAIN acc.last_username THEN TRUE
    ELSE acc.last_username[Unwrap(o.uid)].ts <= Unwrap(o.timestamp)

\* An update that needs a strictly later timestamp.
FoldLastUsernameStrict(last, o) ==
    LET uid       == Unwrap(o.uid)
        timestamp == Unwrap(o.timestamp)
    IN  IF \/ uid \notin DOMAIN last
           \/ (last[uid].ts < timestamp /\ last[uid].un # Unwrap(o.user))
        THEN (uid :> [ts |-> timestamp, un |-> Unwrap(o.user)]) @@ last
        ELSE last

\* An update written with map_or(false, ..): no entry is made for a new uid.
FoldLastUsernameMapOrFalse(last, o) ==
    LET uid       == Unwrap(o.uid)
        timestamp == Unwrap(o.timestamp)
    IN  IF /\ uid \in DOMAIN last
           /\ (last[uid].ts <= timestamp /\ last[uid].un # Unwrap(o.user))
        THEN (uid :> [ts |-> timestamp, un |-> Unwrap(o.user)]) @@ last
        ELSE last

\* main.rs 80-85
FoldLastUsername(last, o) ==
    LET uid       == Unwrap(o.uid)
        timestamp == Unwrap(o.timestamp)
    IN  IF \/ uid \notin DOMAIN last
           \/ (last[uid].ts <= timestamp /\ last[uid].un # Unwrap(o.user))
        THEN (uid :> [ts |-> timestamp, un |-> Unwrap(o.user)]) @@ last
        ELSE last

\* map.entry(k).or_default().insert(v)
EntryInsert(map, k, v) ==
    IF k \in DOMAIN map THEN [map EXCEPT ![k] = @ \cup {v}] ELSE (k :> {v}) @@ map

\* main.rs 87
FoldUserEditDays(ued, o) ==
    EntryInsert(ued, Unwrap(o.uid), DayOf(Unwrap(o.timestamp)))

\* A fold that stores the day's set afresh instead of inserting into it.
FoldDayEditUsersOverwrite(deu, o) ==
    (DayOf(Unwrap(o.timestamp)) :> {Unwrap(o.uid)}) @@ deu

\* main.rs 88
FoldDayEditUsers(deu, o) ==
    EntryInsert(deu, DayOf(Unwrap(o.timestamp)), Unwrap(o.uid))

\* main.rs 65-90
FoldEvent(acc, o) ==
    [user_edit_days |-> FoldUserEditDays(acc.user_edit_days, o),
     day_edit_users |-> FoldDayEditUsers(acc.day_edit_users, o),
     last_username  |-> FoldLastUsername(acc.last_username, o)]

-----------------------------------------------------------------------------
(* The reduce_with closure (main.rs 93-110).                               *)

\* for (k, vs) in map2 { map1.entry(k).or_default().extend(vs) }
EntryExtend(map1, map2) ==
    [k \in DOMAIN map1 \cup DOMAIN map2 |->
        (IF k \in DOMAIN map1 THEN map1[k] ELSE {})
            \cup (IF k \in DOMAIN map2 THEN map2[k] ELSE {})]

\* main.rs 95-97
MergeUserEditDays(ued1, ued2) == EntryExtend(ued1, ued2)

\* A merge that inserts the second map's sets over the first's instead of
\* extending them.
MergeDayEditUsersOverwrite(deu1, deu2) == deu2 @@ deu1

\* main.rs 98-100
MergeDayEditUsers(deu1, deu2) == EntryExtend(deu1, deu2)

\* A merge that takes the later timestamp but leaves the stored name.
MergeLastUsernameMixes(last1, last2) ==
    [uid \in DOMAIN last1 \cup DOMAIN last2 |->
        IF uid \notin DOMAIN last2 THEN last1[uid]
        ELSE IF uid \notin DOMAIN last1 THEN last2[uid]
        ELSE IF last2[uid].ts >= last1[uid].ts /\ last2[uid].un # last1[uid].un
             THEN [ts |-> last2[uid].ts, un |-> last1[uid].un]
             ELSE last1[uid]]

\* main.rs 101-108
MergeLastUsername(last1, last2) ==
    [uid \in DOMAIN last1 \cup DOMAIN last2 |->
        IF uid \notin DOMAIN last2 THEN last1[uid]
        ELSE IF \/ uid \notin DOMAIN last1
                \/ (last2[uid].ts >= last1[uid].ts /\ last2[uid].un # last1[uid].un)
             THEN last2[uid]
             ELSE last1[uid]]

\* main.rs 93-110
MergeTriples(t1, t2) ==
    [user_edit_days |-> MergeUserEditDays(t1.user_edit_days, t2.user_edit_days),
     day_edit_users |-> MergeDayEditUsers(t1.day_edit_users, t2.day_edit_users),
     last_username  |-> MergeLastUsername(t1.last_username, t2.last_username)]

-----------------------------------------------------------------------------
(* The reports (main.rs 121-215).                                          *)

\* main.rs 135: chrono::Days::new(365)
Year == 365

\* main.rs 159: the threshold of the users_ge42_days column
Ge42PerDay == 42

\* main.rs 206: the threshold of the ge42days column
Ge42PerUser == 42

\* The proleptic Gregorian date <<year, month, day of month>> of a NaiveDate.
Civil(d) ==
    LET z   == d + 719468
        era == z \div 146097
        doe == z - era * 146097
        yoe == (doe - doe \div 1460 + doe \div 36524 - doe \div 146096) \div 365
        doy == doe - (365 * yoe + yoe \div 4 - yoe \div 100)
        mp  == (5 * doy + 2) \div 153
        dom == doy - (153 * mp + 2) \div 5 + 1
        m   == IF mp < 10 THEN mp + 3 ELSE mp - 9
        y   == yoe + era * 400 + (IF m <= 2 THEN 1 ELSE 0)
    IN  <<y, m, dom>>

\* main.rs 141, 198: format("%F"), the ISO date year-month-day
FormatF(d) == Civil(d)

\* main.rs 209: format("%d.%m."), day of month then month
FormatDayMonth(d) == <<Civil(d)[3], Civil(d)[2]>>

\* The members of a set of integers within lo..hi, in ascending order: the
\* iteration order of a BTreeSet / BTreeMap.
Ascending(S, lo, hi) ==
    SelectSeq([i \in 1..(hi - lo + 1) |-> lo + i - 1], LAMBDA x : x \in S)

\* main.rs 121-124: first and last key of day_edit_users
FirstKey(deu) == CHOOSE d \in DOMAIN deu : \A e \in DOMAIN deu : d <= e

LastKey(deu) == CHOOSE d \in DOMAIN deu : \A e \in DOMAIN deu : e <= d

\* A loop that stops one day early.
PerDayLoopStopsEarly(d, range) == d < range[2]

\* main.rs 139: take_while(|d| d <= input_day_range.1)
PerDayLoopContinues(d, range) == d <= range[2]

\* main.rs 190: take_while(|d| d <= &end_date)
PerUserLoopContinues(d, e) == d <= e

\* main.rs 146-152: range(day - year ..= day), regrouped by uid
UidsLastYear(deu, d) ==
    LET in_range == { k \in DOMAIN deu : d - Year <= k /\ k <= d }
    IN  [uid \in UNION { deu[k] : k \in in_range } |->
            { k \in in_range : uid \in deu[k] }]

\* main.rs 142-144
TotalNumUsers(deu, d) == IF d \in DOMAIN deu THEN Cardinality(deu[d]) ELSE 0

\* A count of the editors with more than the threshold.
UsersGt42(window) ==
    Cardinality({ uid \in DOMAIN window : Cardinality(window[uid]) > Ge42PerDay })

\* main.rs 157-161
UsersGe42(window) ==
    Cardinality({ uid \in DOMAIN window : Cardinality(window[uid]) >= Ge42PerDay })

\* main.rs 153-162: one record of user_totals_per_day.csv
PerDayRecord(deu, d) ==
    [date             |-> FormatF(d),
     num_users        |-> TotalNumUsers(deu, d),
     rolling_yr_total |-> Cardinality(DOMAIN UidsLastYear(deu, d)),
     users_ge42_days  |-> UsersGe42(UidsLastYear(deu, d))]

\* main.rs 221-229
Clamp(val, min_val, max_val) ==
    IF val > max_val THEN max_val
    ELSE IF val < min_val THEN min_val
    ELSE val

\* main.rs 173-179: start_date before the minimum-span rule
ClampedStart(a, range) ==
    Clamp(IF a.start_date = None THEN range[1] ELSE Unwrap(a.start_date),
          range[1], range[2])

\* main.rs 174, 180-184
ResolveEnd(a, range) ==
    Clamp(IF a.end_date = None THEN range[2] ELSE Unwrap(a.end_date),
          range[1], range[2])

\* A resolution that forgets the minimum-span rule.
ResolveStartNotExtended(a, range) == ClampedStart(a, range)

\* A resolution that clamps the extended start again.
ResolveStartReclamped(a, range) ==
    LET s == ClampedStart(a, range)
        e == ResolveEnd(a, range)
    IN  IF a.min_num_days # None /\ e - s < Unwrap(a.min_num_days)
        THEN Clamp(s - Unwrap(a.min_num_days), range[1], range[2])
        ELSE s

\* main.rs 175-189
ResolveStart(a, range) ==
    LET s == ClampedStart(a, range)
        e == ResolveEnd(a, range)
    IN  IF a.min_num_days # None /\ e - s < Unwrap(a.min_num_days)
        THEN s - Unwrap(a.min_num_days)
        ELSE s

\* main.rs 191-197: range(specific_date - year ..= specific_date), by uid
UsersDays(deu, d) ==
    LET in_range == { k \in DOMAIN deu : d - Year <= k /\ k <= d }
    IN  [uid \in UNION { deu[k] : k \in in_range } |->
            { k \in in_range : uid \in deu[k] }]

\* main.rs 200: the filter of the per-user report
Qualifies(days, a) == Cardinality(days) >= a.min_edit_days

\* main.rs 201-212: one record of users_per_day.csv
PerUidRecord(d, uid, days, last) ==
    [date                  |-> FormatF(d),
     uid                   |-> uid,
     num_edit_days_last_yr |-> Cardinality(days),
     username              |-> last[uid].un,
     ge42days              |-> IF Cardinality(days) >= Ge42PerUser THEN "yes" ELSE "no",
     mapped_days           |-> LET asc == Ascending(days, d - Year, d)
                               IN  [i \in 1..Len(asc) |-> FormatDayMonth(asc[i])]]

RECURSIVE AscendingUids(_)
\* The keys of the BTreeMap users_days in iteration order.
AscendingUids(S) ==
    IF S = {} THEN <<>>
    ELSE LET m == CHOOSE x \in S : \A y \in S : x <= y
         IN  <<m>> \o AscendingUids(S \ {m})

\* main.rs 199-214: the records written for one specific_date
PerUidRecords(window, d, a, last) ==
    LET uids == AscendingUids({ uid \in DOMAIN window : Qualifies(window[uid], a) })
    IN  [i \in 1..Len(uids) |-> PerUidRecord(d, uids[i], window[uids[i]], last)]

\* main.rs 205: last_username.get(uid).unwrap()
PerUidPanics(window, a, last) ==
    \E uid \in DOMAIN window : Qualifies(window[uid], a) /\ uid \notin DOMAIN last

-----------------------------------------------------------------------------
(* Initial states.                                                         *)

ArgsOf(min_edit_days, start, end, min_num_days) ==
    [min_edit_days |-> min_edit_days, start_date |-> start, end_date |-> end,
     min_num_days |-> min_num_days]

\* main.rs 27, 40: the defaults of --min-edit-days and --min-num-days
DefaultArgs == ArgsOf(20, None, None, Some(3))

\* Command lines tried together with the small files of Inputs.
StreamArgs ==
    { DefaultArgs,
      ArgsOf(1, None, None, Some(0)),
      ArgsOf(2, Some(BaseDay + 1), Some(BaseDay), Some(1)) }

NotStarted ==
    /\ user_edit_days = EmptyMap
    /\ day_edit_users = EmptyMap
    /\ last_username = EmptyMap
    /\ input_day_range = None
    /\ files_created = FALSE
    /\ output_per_day = <<>>
    /\ output_date_per_uid = <<>>
    /\ day = 0
    /\ uids_last_year = EmptyMap
    /\ start_date = 0
    /\ end_date = 0
    /\ specific_date = 0
    /\ users_days = EmptyMap

\* main.rs 45-64: arguments parsed, file opened, one empty accumulator per
\* fold worker (Default::default), nothing read yet.
Init ==
    /\ args \in StreamArgs
    /\ input \in Inputs
    /\ pending = DOMAIN input
    /\ partials = [w \in Workers |-> EmptyTriple]
    /\ phase = "aggregate"
    /\ NotStarted

-----------------------------------------------------------------------------
(* Aggregation (main.rs 56-112).                                           *)

report_vars == <<input_day_range, files_created, output_per_day, output_date_per_uid,
                 day, uids_last_year, start_date, end_date, specific_date, users_days>>

global_vars == <<user_edit_days, day_edit_users, last_username>>

\* A worker pulls the next object from the shared iterator and folds it into
\* its accumulator.  Any remaining object may be the next one of the file.
Fold(w, i) ==
    /\ phase = "aggregate"
    /\ i \in pending
    /\ w \in DOMAIN partials
    /\ ~FoldPanics(partials[w], input[i])
    /\ partials' = [partials EXCEPT ![w] = FoldEvent(@, input[i])]
    /\ pending' = pending \ {i}
    /\ UNCHANGED <<args, input, phase, global_vars, report_vars>>

\* A fold that skips an object it cannot use instead of panicking.
FoldSkips(w, i) ==
    /\ phase = "aggregate"
    /\ i \in pending
    /\ w \in DOMAIN partials
    /\ FoldPanics(partials[w], input[i])
    /\ pending' = pending \ {i}
    /\ UNCHANGED <<args, input, partials, phase, user_edit_days, day_edit_users,
                   last_username, input_day_range, files_created, output_per_day,
                   output_date_per_uid, day, uids_last_year, start_date, end_date,
                   specific_date, users_days>>

\* An unwrap of the fold closure panics; rayon carries the panic to main().
FoldPanic(w, i) ==
    /\ phase = "aggregate"
    /\ i \in pending
    /\ w \in DOMAIN partials
    /\ FoldPanics(partials[w], input[i])
    /\ pending' = pending \ {i}
    /\ phase' = "panicked"
    /\ UNCHANGED <<args, input, partials, global_vars, report_vars>>

\* reduce_with combines two finished accumulators; a worker's fold finishes
\* only when the iterator is exhausted.  t1 is the closure's first argument.
Reduce(w1, w2) ==
    /\ phase = "aggregate"
    /\ pending = {}
    /\ w1 \in DOMAIN partials
    /\ w2 \in DOMAIN partials
    /\ w1 # w2
    /\ partials' = [w \in DOMAIN partials \ {w2} |->
                      IF w = w1 THEN MergeTriples(partials[w1], partials[w2])
                      ELSE partials[w]]
    /\ UNCHANGED <<args, input, pending, phase, global_vars, report_vars>>

\* main.rs 56-60, 112: the one remaining triple is bound to the three names.
Aggregated ==
    /\ phase = "aggregate"
    /\ pending = {}
    /\ Cardinality(DOMAIN partials) = 1
    /\ LET t == partials[CHOOSE w \in DOMAIN partials : TRUE]
       IN  /\ user_edit_days' = t.user_edit_days
           /\ day_edit_users' = t.day_edit_users
           /\ last_username' = t.last_username
    /\ partials' = EmptyMap
    /\ phase' = "aggregated"
    /\ UNCHANGED <<args, input, pending, report_vars>>

-----------------------------------------------------------------------------
(* Report writing (main.rs 121-218).                                       *)

aggregate_vars == <<args, input, pending, partials, global_vars>>

\* A day range that falls back to a default when the index is empty.
InputDayRangeOrDefault ==
    /\ phase = "aggregated"
    /\ phase' = "range"
    /\ input_day_range' =
          IF DOMAIN day_edit_users = {} THEN <<BaseDay, BaseDay>>
          ELSE <<CHOOSE d \in DOMAIN day_edit_users : \A e \in DOMAIN day_edit_users : d <= e,
                 CHOOSE d \in DOMAIN day_edit_users : \A e \in DOMAIN day_edit_users : e <= d>>
    /\ UNCHANGED <<args, input, pending, partials, user_edit_days, day_edit_users,
                   last_username, files_created, output_per_day, output_date_per_uid,
                   day, uids_last_year, start_date, end_date, specific_date, users_days>>

\* main.rs 121-124: unwrap of first_key_value / last_key_value
InputDayRange ==
    /\ phase = "aggregated"
    /\ IF DOMAIN day_edit_users = {}
       THEN /\ phase' = "panicked"
            /\ UNCHANGED input_day_range
       ELSE /\ phase' = "range"
            /\ input_day_range' = <<FirstKey(day_edit_users), LastKey(day_edit_users)>>
    /\ UNCHANGED <<aggregate_vars, files_created, output_per_day, output_date_per_uid,
                   day, uids_last_year, start_date, end_date, specific_date, users_days>>

\* main.rs 126-136: both files created, the per-day loop starts at the first day
CreateOutputs ==
    /\ phase = "range"
    /\ files_created' = TRUE
    /\ day' = input_day_range[1]
    /\ phase' = "per_day"
    /\ UNCHANGED <<aggregate_vars, input_day_range, output_per_day, output_date_per_uid,
                   uids_last_year, start_date, end_date, specific_date, users_days>>

\* main.rs 136-163: one iteration of the per-day loop
PerDay ==
    /\ phase = "per_day"
    /\ PerDayLoopContinues(day, input_day_range)
    /\ uids_last_year' = UidsLastYear(day_edit_users, day)
    /\ output_per_day' = Append(output_per_day, PerDayRecord(day_edit_users, day))
    /\ day' = day + 1
    /\ UNCHANGED <<aggregate_vars, phase, input_day_range, files_created,
                   output_date_per_uid, start_date, end_date, specific_date, users_days>>

\* A span resolution that rejects an inverted span with a fatal error.
ResolveSpanRejectsInverted ==
    /\ phase = "per_day"
    /\ ~PerDayLoopContinues(day, input_day_range)
    /\ IF ClampedStart(args, input_day_range) > ResolveEnd(args, input_day_range)
       THEN /\ phase' = "panicked"
            /\ UNCHANGED <<start_date, end_date, specific_date>>
       ELSE /\ start_date' = ResolveStart(args, input_day_range)
            /\ end_date' = ResolveEnd(args, input_day_range)
            /\ specific_date' = ResolveStart(args, input_day_range)
            /\ phase' = "per_user"
    /\ UNCHANGED <<aggregate_vars, input_day_range, files_created, output_per_day,
                   output_date_per_uid, day, uids_last_year, users_days>>

\* main.rs 165-190: the per-day loop is over; the span of the per-user report
ResolveSpan ==
    /\ phase = "per_day"
    /\ ~PerDayLoopContinues(day, input_day_range)
    /\ start_date' = ResolveStart(args, input_day_range)
    /\ end_date' = ResolveEnd(args, input_day_range)
    /\ specific_date' = ResolveStart(args, input_day_range)
    /\ phase' = "per_user"
    /\ UNCHANGED <<aggregate_vars, input_day_range, files_created, output_per_day,
                   output_date_per_uid, day, uids_last_year, users_days>>

\* main.rs 190-215: one iteration of the per-user loop
PerUser ==
    /\ phase = "per_user"
    /\ PerUserLoopContinues(specific_date, end_date)
    /\ users_days' = UsersDays(day_edit_users, specific_date)
    /\ IF PerUidPanics(UsersDays(day_edit_users, specific_date), args, last_username)
       THEN /\ phase' = "panicked"
            /\ UNCHANGED <<output_date_per_uid, specific_date>>
       ELSE /\ output_date_per_uid' =
                  output_date_per_uid \o
                      PerUidRecords(UsersDays(day_edit_users, specific_date),
                                    specific_date, args, last_username)
            /\ specific_date' = specific_date + 1
            /\ UNCHANGED phase
    /\ UNCHANGED <<aggregate_vars, input_day_range, files_created, output_per_day,
                   day, uids_last_year, start_date, end_date>>

\* main.rs 217-218
Finished ==
    /\ phase = "per_user"
    /\ ~PerUserLoopContinues(specific_date, end_date)
    /\ phase' = "finished"
    /\ UNCHANGED <<aggregate_vars, report_vars>>

ReportNext ==
    \/ InputDayRange
    \/ CreateOutputs
    \/ PerDay
    \/ ResolveSpan
    \/ PerUser
    \/ Finished

Next ==
    \/ \E w \in Workers : \E i \in 1..MaxEvents : Fold(w, i)
    \/ \E w \in Workers : \E i \in 1..MaxEvents : FoldPanic(w, i)
    \/ \E w1 \in Workers : \E w2 \in Workers : Reduce(w1, w2)
    \/ Aggregated
    \/ ReportNext

Spec == Init /\ [][Next]_vars

-----------------------------------------------------------------------------
(* Reference computations used to state the properties.                    *)

RECURSIVE FoldSeq(_, _, _)
\* One worker folding the objects s[i], s[i+1], ... in that order
\* (main.rs 63-91 with a single accumulator).
FoldSeq(acc, s, i) ==
    IF i > Len(s) THEN acc ELSE FoldSeq(FoldEvent(acc, s[i]), s, i + 1)

\* The whole file folded by one worker, in the order the file is written down.
OneWorker == FoldSeq(EmptyTriple, input, 1)

RECURSIVE FoldIndexes(_, _, _)
\* The two activity indexes of one worker folding s[i], s[i+1], ... in that
\* order (the inserts of main.rs 87-88 alone).
FoldIndexes(acc, s, i) ==
    IF i > Len(s) THEN acc
    ELSE FoldIndexes([user_edit_days |-> FoldUserEditDays(acc.user_edit_days, s[i]),
                      day_edit_users |-> FoldDayEditUsers(acc.day_edit_users, s[i])],
                     s, i + 1)

OneWorkerIndexes ==
    FoldIndexes([user_edit_days |-> EmptyMap, day_edit_users |-> EmptyMap], input, 1)

RECURSIVE ReduceAll(_, _)
\* reduce_with over the live accumulators ws of parts, lowest worker first.
ReduceAll(parts, ws) ==
    LET w == CHOOSE x \in ws : \A y \in ws : x <= y
    IN  IF ws = {w} THEN parts[w]
        ELSE MergeTriples(parts[w], ReduceAll(parts, ws \ {w}))

WellFormed(o) == o.uid # None /\ o.timestamp # None /\ o.user # None

AllWellFormed == \A i \in DOMAIN input : WellFormed(input[i])

\* The fold and the reduction are over and produced the global triple.
Completed == phase \in {"aggregated", "range", "per_day", "per_user", "finished"}

\* Every object has been folded and the accumulators are being reduced.
Reducing == phase = "aggregate" /\ pending = {}

\* The objects of the file that carry editor uid.
EventsOf(uid) == { i \in DOMAIN input : input[i].uid = Some(uid) }

\* No editor has two objects with the same timestamp and different names.
NoEqualTimestampConflict ==
    \A i \in DOMAIN input : \A j \in DOMAIN input :
        (input[i].uid = input[j].uid /\ input[i].timestamp = input[j].timestamp)
            => input[i].user = input[j].user

\* i is the one object of its editor with the greatest timestamp.
UniqueLatest(i) ==
    \A j \in EventsOf(Unwrap(input[i].uid)) :
        j # i => Unwrap(input[j].timestamp) < Unwrap(input[i].timestamp)

\* user in deu[day] <=> day in ued[user]
Dual(t) ==
    /\ \A d \in DOMAIN t.day_edit_users : \A u \in t.day_edit_users[d] :
          u \in DOMAIN t.user_edit_days /\ d \in t.user_edit_days[u]
    /\ \A u \in DOMAIN t.user_edit_days : \A d \in t.user_edit_days[u] :
          d \in DOMAIN t.day_edit_users /\ u \in t.day_edit_users[d]

GlobalTriple ==
    [user_edit_days |-> user_edit_days, day_edit_users |-> day_edit_users,
     last_username |-> last_username]

-----------------------------------------------------------------------------
(* The reports on their own: main() from line 114 on, started from the     *)
(* global triple of a completed aggregation.                               *)

\* The days, counted from BaseDay, on which editor 1 is active in the files
\* tried: single days at both ends of a window, a gap, runs of one day less
\* than, and exactly, the super-user threshold, and a run of Year + 1 days.
Patterns1 ==
    { {}, {0}, {1}, {0, 2}, {Year}, {0, Year},
      0..(Ge42PerDay - 2), 0..(Ge42PerDay - 1), 0..Year }

\* The same for editor 2.
Patterns2 == { {}, {0}, {1}, {Year}, {Year + 1} }

\* One object of editor uid per day of the pattern, in ascending day order.
ObjectsOf(uid, name, pattern) ==
    LET days == Ascending({ BaseDay + k : k \in pattern }, BaseDay, BaseDay + Year + 1)
    IN  [i \in 1..Len(days) |-> Obj(uid, days[i] * SecondsPerDay, name)]

ReportInputs ==
    { ObjectsOf(1, "Alice", p1) \o ObjectsOf(2, "Carol", p2) :
        p1 \in Patterns1, p2 \in Patterns2 }

RECURSIVE TreeReduce(_, _, _)
\* The triple of a run in which every object s[lo..hi] is folded by an
\* accumulator of its own and the accumulators are reduced as a balanced
\* tree (main.rs 60-112).
TreeReduce(s, lo, hi) ==
    IF lo > hi THEN EmptyTriple
    ELSE IF lo = hi THEN FoldEvent(EmptyTriple, s[lo])
    ELSE MergeTriples(TreeReduce(s, lo, (lo + hi) \div 2),
                      TreeReduce(s, (lo + hi) \div 2 + 1, hi))

\* Command lines tried with them: the defaults, the whole range with every
\* editor, spans inside, across and outside the observed range, inverted
\* spans, and a single day.
ReportArgs ==
    { DefaultArgs,
      ArgsOf(1, None, None, Some(0)),
      ArgsOf(42, None, None, Some(3)),
      ArgsOf(1, Some(BaseDay + 1), Some(BaseDay), Some(3)),
      ArgsOf(1, Some(BaseDay + 2), Some(BaseDay), Some(1)),
      ArgsOf(2, Some(BaseDay + Year), Some(BaseDay + Year), Some(0)),
      ArgsOf(1, Some(BaseDay - 5), Some(BaseDay + 1), Some(3)),
      ArgsOf(42, Some(BaseDay + 41), Some(BaseDay + Year + 40), Some(1)) }

\* main.rs 112-114: the aggregation of a well-formed file is over.
InitReport ==
    /\ args \in ReportArgs
    /\ input \in ReportInputs
    /\ pending = {}
    /\ partials = EmptyMap
    /\ phase = "aggregated"
    /\ user_edit_days = TreeReduce(input, 1, Len(input)).user_edit_days
    /\ day_edit_users = TreeReduce(input, 1, Len(input)).day_edit_users
    /\ last_username = TreeReduce(input, 1, Len(input)).last_username
    /\ input_day_range = None
    /\ files_created = FALSE
    /\ output_per_day = <<>>
    /\ output_date_per_uid = <<>>
    /\ day = 0
    /\ uids_last_year = EmptyMap
    /\ start_date = 0
    /\ end_date = 0
    /\ specific_date = 0
    /\ users_days = EmptyMap

SpecReport == InitReport /\ [][ReportNext]_vars

-----------------------------------------------------------------------------
(* Properties of the aggregation.                                          *)

\* C2: for a file in which no editor has two objects with the same timestamp
\* and different names, the final display name of every editor is the same
\* for every split among workers, every delivery order and every merge
\* order: it always equals the name one worker gets folding the file in the
\* order it is written down.  (Stated as the claim; the code violates it.)
C2_NameIndependentOfOrder ==
    (Completed /\ AllWellFormed /\ NoEqualTimestampConflict)
        => \A uid \in DOMAIN last_username :
              last_username[uid].un = OneWorker.last_username[uid].un

\* C3: after aggregation, for every editor whose objects have a unique
\* maximum timestamp, last_username holds the name carried by that object.
\* (Stated as the claim; the code violates it.)
C3_LatestNameIsMostRecent ==
    Completed
        => \A i \in DOMAIN input :
              (WellFormed(input[i]) /\ UniqueLatest(i))
                  => last_username[Unwrap(input[i].uid)].un = Unwrap(input[i].user)

C5_Duality ==
    /\ \A w \in DOMAIN partials : Dual(partials[w])
    /\ Dual(GlobalTriple)

\* C5 witness: a merged global triple with two editors and two days.
C5_Witness ==
    /\ Completed
    /\ Cardinality(DOMAIN user_edit_days) = 2
    /\ Cardinality(DOMAIN day_edit_users) = 2
    /\ \E u \in DOMAIN user_edit_days : Cardinality(user_edit_days[u]) = 2

-----------------------------------------------------------------------------
(* Properties of the reports.                                              *)

RangeKnown == input_day_range # None

\* The per-day loop has run at least once; its last target day is day - 1.
PerDayIterated == phase = "per_day" /\ day > input_day_range[1]

\* The per-user loop has run at least once; its last target day is
\* specific_date - 1.
PerUserIterated == phase \in {"per_user", "finished"} /\ specific_date > start_date

\* The per-day loop is over.
PerDayOver == phase \in {"per_user", "finished"}

LastRow(rows) == rows[Len(rows)]

\* The window of the specification: the editors with an active day in the
\* closed range [D - 364, D], each with its active days in that range.
ClaimedWindow(deu, D) ==
    LET in_range == { k \in DOMAIN deu : D - 364 <= k /\ k <= D }
    IN  [uid \in { u \in UNION { deu[k] : k \in DOMAIN deu } :
                     \E k \in in_range : u \in deu[k] } |->
            { k \in in_range : uid \in deu[k] }]

\* C1: for every target day D the window used by both reports maps exactly
\* the editors with an active day in [D - 364, D] to their active days in
\* that range, so an editor whose only active day is D - 365 is not in it.
\* (Stated as the claim; the code violates it.)
C1_WindowIsClosed365Days ==
    /\ PerDayIterated =>
          /\ uids_last_year = ClaimedWindow(day_edit_users, day - 1)
          /\ LastRow(output_per_day).rolling_yr_total
                = Cardinality(DOMAIN ClaimedWindow(day_edit_users, day - 1))
    /\ PerUserIterated =>
          users_days = ClaimedWindow(day_edit_users, specific_date - 1)

\* C8: an editor's distinct-day count in a window never exceeds 365.
\* (Stated as the claim; the code violates it.)
C8_DayCountAtMost365 ==
    /\ \A uid \in DOMAIN uids_last_year : Cardinality(uids_last_year[uid]) <= 365
    /\ \A uid \in DOMAIN users_days : Cardinality(users_days[uid]) <= 365
    /\ \A i \in DOMAIN output_date_per_uid :
          i = Len(output_date_per_uid)
              => output_date_per_uid[i].num_edit_days_last_yr <= 365

\* Lexicographic order of <<year, month, day>> dates.
DateBefore(a, b) ==
    \/ a[1] < b[1]
    \/ a[1] = b[1] /\ a[2] < b[2]
    \/ a[1] = b[1] /\ a[2] = b[2] /\ a[3] < b[3]

\* Row i of the per-day report is the row of the i-th day of the observed
\* range, with the size of that day's user set (0 without an entry).
PerDayRowFor(i) ==
    LET d == input_day_range[1] + i - 1
    IN  /\ output_per_day[i].date = Civil(d)
        /\ output_per_day[i].num_users =
              (IF d \in DOMAIN day_edit_users
               THEN Cardinality(day_edit_users[d]) ELSE 0)
        /\ i > 1 => DateBefore(output_per_day[i - 1].date, output_per_day[i].date)

\* C9: the per-day report has exactly one row for every calendar day from
\* min_day to max_day, in ascending date order and no other rows; the daily
\* count of a day is the size of its user set, 0 for a day without entry.
\* The newest row is checked after every write, the number of rows at every
\* step, and every row once the run has finished.
C9_PerDayRows ==
    /\ ~RangeKnown => output_per_day = <<>>
    /\ (RangeKnown /\ ~PerDayOver) =>
          /\ phase = "per_day" => Len(output_per_day) = day - input_day_range[1]
          /\ phase # "per_day" => output_per_day = <<>>
          /\ output_per_day # <<>> => PerDayRowFor(Len(output_per_day))
    /\ PerDayOver =>
          Len(output_per_day) = input_day_range[2] - input_day_range[1] + 1
    /\ phase = "finished" => \A i \in DOMAIN output_per_day : PerDayRowFor(i)

\* C9 witness: a finished run whose per-day report has a row with no active
\* user between rows with one.
C9_Witness ==
    /\ phase = "finished"
    /\ Len(output_per_day) >= 3
    /\ output_per_day[1].num_users >= 1
    /\ output_per_day[2].num_users = 0
    /\ output_per_day[3].num_users >= 1

\* The editors with at least n distinct days in a window.
AtLeast(window, n) == { uid \in DOMAIN window : Cardinality(window[uid]) >= n }

\* C10: the super-user count of the per-day row of D is the number of
\* editors to which the per-user report's window computation for D gives a
\* day-count >= 42: checked against the per-user computation for the newest
\* per-day row, and against the window the per-user loop computed for every
\* D of its span that lies in the observed range.
C10_ThresholdConsistency ==
    /\ PerDayIterated =>
          LastRow(output_per_day).users_ge42_days
              = Cardinality(AtLeast(UsersDays(day_edit_users, day - 1), 42))
    /\ (PerUserIterated /\ specific_date - 1 >= input_day_range[1]) =>
          output_per_day[specific_date - input_day_range[1]].users_ge42_days
              = Cardinality(AtLeast(users_days, 42))

\* C10 witness: the per-user loop has computed the window of a day whose
\* per-day row counts a super user, beside an editor who is not one.
C10_Witness ==
    /\ PerUserIterated
    /\ specific_date - 1 >= input_day_range[1]
    /\ output_per_day[specific_date - input_day_range[1]].users_ge42_days = 1
    /\ Cardinality(DOMAIN users_days) = 2

-----------------------------------------------------------------------------
(* Properties of the span of the per-user report.                          *)

\* x is v brought into lo..hi.
IsClampOf(x, v, lo, hi) ==
    /\ lo <= x /\ x <= hi
    /\ (lo <= v /\ v <= hi) => x = v
    /\ v < lo => x = lo
    /\ v > hi => x = hi

ClampedTo(v, lo, hi) == CHOOSE x \in {v, lo, hi} : IsClampOf(x, v, lo, hi)

\* The start and end the caller asked for (the observed range by default),
\* clamped to the observed range.
RequestedStart ==
    ClampedTo(IF args.start_date = None THEN input_day_range[1]
              ELSE Unwrap(args.start_date),
              input_day_range[1], input_day_range[2])

RequestedEnd ==
    ClampedTo(IF args.end_date = None THEN input_day_range[2]
              ELSE Unwrap(args.end_date),
              input_day_range[1], input_day_range[2])

MinNumDays == Unwrap(args.min_num_days)

\* The clamped start is later than the clamped end.
InvertedSpan == RangeKnown /\ RequestedStart > RequestedEnd

\* C6, as claimed: with an inverted clamped span the run ends in a fatal
\* error before any output file is opened and before any row is written.
\* (The code violates it.)
C6_InvertedSpanFailsFast ==
    InvertedSpan =>
        /\ ~files_created
        /\ output_per_day = <<>>
        /\ output_date_per_uid = <<>>
        /\ phase # "finished"

\* C6, amended: an inverted clamped span raises no error.  Both files are
\* created and the whole per-day report is written before the span is
\* resolved; the per-user loop writes rows only for days from the resolved
\* start to the clamped end, none when the resolved start is still later.
C6_InvertedSpanNoError ==
    InvertedSpan =>
        /\ phase # "panicked"
        /\ PerDayOver =>
              /\ files_created
              /\ Len(output_per_day) = input_day_range[2] - input_day_range[1] + 1
              /\ end_date = RequestedEnd
              /\ start_date > end_date => output_date_per_uid = <<>>
              /\ output_date_per_uid # <<>> =>
                    \E d \in start_date..end_date :
                        LastRow(output_date_per_uid).date = Civil(d)

\* C6 witness: a run with an inverted clamped span has finished, with its
\* per-day report and rows in its per-user report.
C6_Witness ==
    /\ InvertedSpan
    /\ phase = "finished"
    /\ Len(output_per_day) >= 2
    /\ output_date_per_uid # <<>>

-----------------------------------------------------------------------------
(* Further properties of the aggregation.                                  *)

\* C11: in every partial triple and in the global triple every editor of
\* user_edit_days (equally, every member of a day's user set) has an entry
\* in last_username, so the lookup of main.rs 205 finds one for every row:
\* the run never panics once the output files exist.
C11_EveryEditorHasAName ==
    /\ \A w \in DOMAIN partials :
          /\ DOMAIN partials[w].user_edit_days \subseteq DOMAIN partials[w].last_username
          /\ \A d \in DOMAIN partials[w].day_edit_users :
                partials[w].day_edit_users[d] \subseteq DOMAIN partials[w].last_username
    /\ DOMAIN user_edit_days \subseteq DOMAIN last_username
    /\ \A d \in DOMAIN day_edit_users : day_edit_users[d] \subseteq DOMAIN last_username
    /\ \A i \in DOMAIN output_date_per_uid :
          output_date_per_uid[i].username = last_username[output_date_per_uid[i].uid].un
    /\ phase = "panicked" => ~files_created

\* C11 witness: the per-user report holds rows of two editors, each with the
\* name looked up for it.
C11_Witness ==
    /\ phase = "finished"
    /\ \E i \in DOMAIN output_date_per_uid : \E j \in DOMAIN output_date_per_uid :
          /\ output_date_per_uid[i].uid = 1
          /\ output_date_per_uid[j].uid = 2
          /\ output_date_per_uid[j].username = "Carol"

\* C12: when the file holds no object the run ends in a fatal error and no
\* report is generated: the run never gets past the day range, no file is
\* created and no row written, and it cannot stop anywhere but in the panic.
C12_EmptyInputIsFatal ==
    input = <<>> =>
        /\ phase \in {"aggregate", "aggregated", "panicked"}
        /\ ~files_created
        /\ output_per_day = <<>>
        /\ output_date_per_uid = <<>>
        /\ phase # "panicked" => ENABLED Next

\* C12 witness: the run on an empty file has reduced the empty accumulators
\* of all workers and has panicked.
C12_Witness ==
    /\ input = <<>>
    /\ partials = EmptyMap
    /\ phase = "panicked"

\* The stored entry of o's editor has o's timestamp and another name.
EqualTimestampOtherName(last, o) ==
    /\ Unwrap(o.uid) \in DOMAIN last
    /\ last[Unwrap(o.uid)].ts = Unwrap(o.timestamp)
    /\ last[Unwrap(o.uid)].un # Unwrap(o.user)

\* The editors with an entry in both indexes.
InBoth(last1, last2) == DOMAIN last1 \cap DOMAIN last2

\* C13: of two entries of one editor with equal timestamps and different
\* names the one applied second wins: a worker folding an object over such
\* an entry stores the object's pair, and a merge of two such entries keeps
\* the entry of its second argument.
C13_EqualTimestampSecondWins ==
    [][ /\ \A w \in Workers : \A i \in 1..MaxEvents :
              (Fold(w, i) /\ EqualTimestampOtherName(partials[w].last_username, input[i]))
                  => partials'[w].last_username[Unwrap(input[i].uid)]
                        = [ts |-> Unwrap(input[i].timestamp), un |-> Unwrap(input[i].user)]
        /\ \A w1 \in Workers : \A w2 \in Workers :
              Reduce(w1, w2)
                  => \A uid \in InBoth(partials[w1].last_username, partials[w2].last_username) :
                        (/\ partials[w1].last_username[uid].ts = partials[w2].last_username[uid].ts
                         /\ partials[w1].last_username[uid].un # partials[w2].last_username[uid].un)
                            => partials'[w1].last_username[uid] = partials[w2].last_username[uid]
      ]_vars

\* C13 witness: the file holds (t, "Alice") then (t, "Bob") for one editor
\* and the run ended with "Alice": Bob's object was applied first.
C13_Witness ==
    /\ Completed
    /\ input = <<Obj(1, T0, "Alice"), Obj(1, T0, "Bob")>>
    /\ last_username[1] = [ts |-> T0, un |-> "Alice"]

\* C15: once an object without uid or without timestamp has been delivered
\* to a worker the run has aborted: there is no global triple, no file and
\* no row, whatever the other workers have folded; so a completed
\* aggregation has seen no such object.
C15_MalformedEventIsFatal ==
    /\ (\E i \in DOMAIN input \ pending :
            input[i].uid = None \/ input[i].timestamp = None)
          => /\ phase = "panicked"
             /\ user_edit_days = EmptyMap
             /\ day_edit_users = EmptyMap
             /\ last_username = EmptyMap
             /\ ~files_created
             /\ output_per_day = <<>>
             /\ output_date_per_uid = <<>>
    /\ Completed =>
          \A i \in DOMAIN input : input[i].uid # None /\ input[i].timestamp # None

\* C15 witness: the run aborted on an object without uid after two
\* well-formed objects had been folded.
C15_Witness ==
    /\ phase = "panicked"
    /\ \E i \in DOMAIN input \ pending : input[i].uid = None
    /\ \E w \in DOMAIN partials : Cardinality(DOMAIN partials[w].day_edit_users) = 2

\* C17, as claimed: a merge of two entries of one editor with different
\* timestamps keeps the entry with the greater timestamp, timestamp and
\* name.  (The code violates it.)
C17_MergeKeepsGreaterTimestamp ==
    [][ \A w1 \in Workers : \A w2 \in Workers :
            Reduce(w1, w2)
                => \A uid \in InBoth(partials[w1].last_username, partials[w2].last_username) :
                      partials[w1].last_username[uid].ts # partials[w2].last_username[uid].ts
                          => partials'[w1].last_username[uid]
                                = (IF partials[w1].last_username[uid].ts
                                        > partials[w2].last_username[uid].ts
                                   THEN partials[w1].last_username[uid]
                                   ELSE partials[w2].last_username[uid])
      ]_vars

\* The pair (timestamp, name) of entry e of editor uid is that of one object
\* of the file already delivered to a worker.
PairOfOneEvent(uid, e) ==
    \E i \in DOMAIN input \ pending :
        input[i] = Obj(uid, e.ts, e.un)

\* C19: every entry of every last_username index, partial or global, is the
\* (timestamp, name) pair of one single object folded for that editor.
C19_EntryIsOneEvent ==
    /\ \A w \in DOMAIN partials : \A uid \in DOMAIN partials[w].last_username :
          PairOfOneEvent(uid, partials[w].last_username[uid])
    /\ \A uid \in DOMAIN last_username : PairOfOneEvent(uid, last_username[uid])

\* C19 witness: a global triple built from objects of one editor that
\* differ in timestamp and in name, beside another editor.
C19_Witness ==
    /\ Completed
    /\ DOMAIN last_username = {1, 2}
    /\ \E i \in DOMAIN input : \E j \in DOMAIN input :
          /\ input[i].uid = Some(1) /\ input[j].uid = Some(1)
          /\ input[i].timestamp # input[j].timestamp
          /\ input[i].user # input[j].user

-----------------------------------------------------------------------------
(* Further properties of the reports.                                      *)

\* The rows of the per-user report written for report day D.
RowsOf(D) == SelectSeq(output_date_per_uid, LAMBDA r : r.date = Civil(D))

\* The rows written for report day D are those of the editors of window
\* with at least min_edit_days days, in ascending editor-id order; each
\* row's day-count is the length of its day list, the day list is the
\* editor's days of the window in ascending date order, and the flag is
\* "yes" exactly from 42 days on.
PerUserRowsMatch(window, D) ==
    LET rows == RowsOf(D)
    IN  /\ { rows[i].uid : i \in DOMAIN rows }
              = AtLeast(window, args.min_edit_days)
        /\ \A i \in DOMAIN rows : \A j \in DOMAIN rows :
              i < j => rows[i].uid < rows[j].uid
        /\ \A i \in DOMAIN rows :
              /\ rows[i].num_edit_days_last_yr = Len(rows[i].mapped_days)
              /\ rows[i].uid \in DOMAIN window =>
                    /\ rows[i].num_edit_days_last_yr = Cardinality(window[rows[i].uid])
                    /\ LET asc == Ascending(window[rows[i].uid], D - Year, D)
                       IN  rows[i].mapped_days
                             = [k \in 1..Len(asc) |-> FormatDayMonth(asc[k])]
              /\ rows[i].ge42days = "yes" <=> rows[i].num_edit_days_last_yr >= 42
              /\ rows[i].ge42days \in {"yes", "no"}

\* C14, as claimed: for every report day D of the per-user span the rows of
\* D are those of the editors of the window [D - 364, D] with a day-count
\* >= min_edit_days, in ascending editor-id order, each with a day-count
\* equal to the length of its ascending day list and the flag "yes" exactly
\* when the count is >= 42.  (The code violates it.)
C14_PerUserRows ==
    PerUserIterated =>
        PerUserRowsMatch(ClaimedWindow(day_edit_users, specific_date - 1),
                         specific_date - 1)

\* An editor's distinct-day count in a window, 0 when not in it.
DayCount(window, uid) ==
    IF uid \in DOMAIN window THEN Cardinality(window[uid]) ELSE 0

\* C16, as claimed: when the loop goes from report day D to D + 1 and editor
\* u has no active day that is in the window ending at D, [D - 364, D], but
\* not in the window ending at D + 1, u's day-count for D + 1 is at least
\* its day-count for D.  (The code violates it.)
C16_WindowMonotonicity ==
    [][ /\ (PerDayIterated /\ PerDay) =>
              \A u \in DOMAIN user_edit_days :
                  (day - 1) - 364 \notin user_edit_days[u]
                      => DayCount(uids_last_year', u) >= DayCount(uids_last_year, u)
        /\ (PerUserIterated /\ PerUser) =>
              \A u \in DOMAIN user_edit_days :
                  (specific_date - 1) - 364 \notin user_edit_days[u]
                      => DayCount(users_days', u) >= DayCount(users_days, u)
      ]_vars

\* The minimum-span rule applies to the clamped span.
ExtensionTriggered == RequestedEnd - RequestedStart < MinNumDays

\* C18: when the minimum-span extension is triggered the resolved start is
\* the clamped start minus min_num_days, not clamped again, and the
\* per-user loop starts at it even when it is before min_day; the resolved
\* end is within [min_day, max_day].
C18_ExtensionNotReclamped ==
    PerDayOver =>
        /\ ExtensionTriggered => start_date = RequestedStart - MinNumDays
        /\ input_day_range[1] <= end_date /\ end_date <= input_day_range[2]
        /\ specific_date >= start_date
        /\ PerUserIterated =>
              /\ users_days = UsersDays(day_edit_users, specific_date - 1)
              /\ specific_date - 1 <= end_date

\* C18 witness: after an extension the per-user loop has visited a report
\* day before min_day, the extended start itself.
C18_Witness ==
    /\ PerUserIterated
    /\ ExtensionTriggered
    /\ MinNumDays > 0
    /\ specific_date - 1 < input_day_range[1]
    /\ specific_date - 1 = start_date

=============================================================================
